---- MODULE Spec2Model ----
(***************************************************************************)
(* State-machine model of the QwiicLEDStick driver                         *)
(* (src/sparkfun_qwiic_led_stick.py).                                      *)
(*                                                                         *)
(* One action per public method; a method that reaches _write stops at    *)
(* every bus.write attempt, so that the environment (the I2C bus) decides  *)
(* attempt by attempt whether the write succeeds or raises OSError.        *)
(*                                                                         *)
(* Modelling decisions:                                                    *)
(*  - the software brightness (a float in [0, 1] kept by PixelBuf) is a    *)
(*    rational <<num, den>>; int(cc * brightness) is the floor of the      *)
(*    exact product.  Floating-point rounding of the product is not        *)
(*    modelled.                                                            *)
(*  - I2CDevice(i2c, address) is a handle bound to that address; entering  *)
(*    it takes the bus lock, leaving it releases the lock.                 *)
(*  - time.sleep has no effect on the state.                               *)
(*  - the variables outcome, frames, log, retries0, device0 and retried    *)
(*    only observe the run: no guard reads them.                           *)
(***************************************************************************)
EXTENDS Integers, Sequences, FiniteSets, TLC

----------------------------------------------------------------------------
(* Bounds of the model *)

\* largest num_pixels a strip is constructed with
MaxPixels == 2
\* a new operation starts only while retries < MaxRetries
MaxRetries == 4
\* largest denominator of a brightness in FillSpec
MaxDen == 6

----------------------------------------------------------------------------
(* Program constants *)

RETRIES == 4
\* 0x23
DEFAULT_ADDRESS == 35
\* 0xC7
COMMAND_CHANGE_ADDRESS == 199
\* 0x71
COMMAND_WRITE_SINGLE_LED_COLOR == 113
\* 0x72
COMMAND_WRITE_ALL_LED_COLOR == 114
\* 0x76
COMMAND_WRITE_SINGLE_LED_BRIGHTNESS == 118
\* 0x77
COMMAND_WRITE_ALL_LED_BRIGHTNESS == 119
\* 0x78
COMMAND_WRITE_ALL_LED_OFF == 120

----------------------------------------------------------------------------
(* Input values *)

\* a color argument: an int, a sequence, or a value of another type
Packed(n) == [tag |-> "int", v |-> n, s |-> <<>>]
Rgb(t) == [tag |-> "seq", v |-> 0, s |-> t]
OtherColor == [tag |-> "other", v |-> 0, s |-> <<>>]
NoColor == [tag |-> "none", v |-> 0, s |-> <<>>]

\* 0x808000, 0x500050, (1, 2, 3): valid;  0x1000000, -1, (1, 2), (256, 0, 0),
\* None: not valid
Colors ==
    { Packed(8421376), Packed(5242960), Rgb(<<1, 2, 3>>),
      Packed(16777216), Packed(-1), Rgb(<<1, 2>>), Rgb(<<256, 0, 0>>), OtherColor }

Numbers == -1 .. MaxPixels
Levels == {-1, 0, 31, 32}
\* 0x07, 0x08, 0x77, 0x78
Addresses == {7, 8, 119, 120}
Brightnesses == { <<1, 5>>, <<1, 1>> }
PixelColors == { <<0, 0, 0>>, <<9, 8, 7>> }

RECURSIVE Buffers(_)
Buffers(n) ==
    IF n = 0 THEN { <<>> }
    ELSE { b \o p : b \in Buffers(n - 1), p \in PixelColors }

----------------------------------------------------------------------------
VARIABLES
    num_pixels,   \* self.num_pixels
    brightness,   \* self.brightness, <<num, den>>
    buf,          \* the pixel buffer handed to _transmit, 3 bytes per pixel
    device,       \* address of self.device
    retries,      \* self.retries
    pc,           \* "idle", "attempt" (before a bus.write), "exit" (leaving
                  \* the with block), "return" (after _write returned)
    call,         \* the operation in progress, or the last one
    pos,          \* loop variable of _transmit
    data,         \* argument of _write
    bus,          \* address of the device bound by `with self.device as bus`
    i,            \* loop variable of _write
    held,         \* the bus lock is held
    outcome,      \* how the last operation ended
    frames,       \* the frames handed to _write by this operation, in order
    log,          \* the bus.write attempts of the current _write call
    retries0,     \* retries when the current _write call started
    device0,      \* device when the operation started
    retried       \* failed attempts that were followed by another attempt

prog == <<num_pixels, brightness, buf, device, retries>>
ctl == <<pc, call, pos, data, bus, i, held>>
obs == <<outcome, frames, log, retries0, device0, retried>>
vars == <<prog, ctl, obs>>

Call(op, number, color, arg) ==
    [op |-> op, number |-> number, color |-> color, arg |-> arg]

NoCall == Call("none", 0, NoColor, 0)

----------------------------------------------------------------------------
(* Pure helpers *)

\* off by one: number <= num_pixels passes
InRange_UpTo(number, n) == number \in 0 .. n

\* number in range(self.num_pixels)
InRange(number, n) == number \in 0 .. (n - 1)

IsByte(x) == x \in 0 .. 255

\* int.to_bytes(3, "big")
to_bytes(n) == << (n \div 65536) % 256, (n \div 256) % 256, n % 256 >>

\* an int is cut to its low 3 bytes instead of being refused
color_bytes_Wrap(color) ==
    IF color.tag = "seq" /\ Len(color.s) = 3
    THEN IF \A k \in 1 .. 3 : IsByte(color.s[k])
         THEN [err |-> "", bytes |-> color.s]
         ELSE [err |-> "ValueError_bytes", bytes |-> <<>>]
    ELSE IF color.tag = "int"
    THEN [err |-> "", bytes |-> to_bytes(color.v % 16777216)]
    ELSE [err |-> "ValueError_color", bytes |-> <<>>]

\* color_bytes: err = "" and the 3 bytes, or the exception raised
color_bytes(color) ==
    IF color.tag = "seq" /\ Len(color.s) = 3
    THEN IF \A k \in 1 .. 3 : IsByte(color.s[k])
         THEN [err |-> "", bytes |-> color.s]
         ELSE [err |-> "ValueError_bytes", bytes |-> <<>>]
    ELSE IF color.tag = "int"
    THEN IF color.v >= 0 /\ color.v < 16777216
         THEN [err |-> "", bytes |-> to_bytes(color.v)]
         ELSE [err |-> "OverflowError", bytes |-> <<>>]
    ELSE [err |-> "ValueError_color", bytes |-> <<>>]

\* round(cc * self.brightness) in place of int(...)
ScaleChannel_Round(cc, br) == (2 * cc * br[1] + br[2]) \div (2 * br[2])

\* int(cc * self.brightness)
ScaleChannel(cc, br) == (cc * br[1]) \div br[2]

SingleLedColorFrame(number, bytes) ==
    <<COMMAND_WRITE_SINGLE_LED_COLOR, number>> \o bytes

\* the single-LED opcode in the fill frame
AllLedColorFrame_SingleOp(bytes) == <<COMMAND_WRITE_SINGLE_LED_COLOR>> \o bytes

AllLedColorFrame(bytes) == <<COMMAND_WRITE_ALL_LED_COLOR>> \o bytes

SingleLedBrightnessFrame(number, level) ==
    <<COMMAND_WRITE_SINGLE_LED_BRIGHTNESS, number, level>>

\* the reserved byte left out
AllLedOffFrame_NoPayload == <<COMMAND_WRITE_ALL_LED_OFF>>

AllLedOffFrame == <<COMMAND_WRITE_ALL_LED_OFF, 0>>

ChangeAddressFrame(new_address) == <<COMMAND_CHANGE_ADDRESS, new_address>>

\* off by one: 0x78 passes
InvalidAddress_Loose(new_address) == new_address < 8 \/ new_address > 120

\* new_address < 0x08 or new_address > 0x77
InvalidAddress(new_address) == new_address < 8 \/ new_address > 119

\* off by one: 32 passes
InvalidLevel_Loose(level) == level < 0 \/ level > 32

\* brightness < 0 or brightness > 31
InvalidLevel(level) == level < 0 \/ level > 31

\* change_address rebinding self.device before it calls _write
BusForWrite_ReboundFirst(c, dev) ==
    IF c.op = "change_address" THEN c.arg ELSE dev

\* the device the with block of _write binds: self.device
BusForWrite(c, dev) == dev

\* the failure is not counted
RetriesAfterFailure_NotCounted(r) == r

\* self.retries += 1
RetriesAfterFailure(r) == r + 1

----------------------------------------------------------------------------
(* Steps shared by the operations *)

Ready == pc = "idle" /\ retries < MaxRetries

\* an exception leaves the operation before any _write
Raise(c, e) ==
    /\ call' = c
    /\ outcome' = e
    /\ frames' = <<>>
    /\ log' = <<>>
    /\ retries0' = retries
    /\ device0' = device
    /\ UNCHANGED <<prog, pc, pos, data, bus, i, held, retried>>

\* _write(d) up to its first bus.write
EnterWrite(c, d) ==
    /\ data' = d
    /\ bus' = BusForWrite(c, device)
    /\ held' = TRUE
    /\ i' = 0
    /\ log' = <<>>
    /\ retries0' = retries
    /\ pc' = "attempt"

\* a public method that passed its checks and calls _write(d)
Begin(c, d) ==
    /\ call' = c
    /\ outcome' = "running"
    /\ frames' = <<d>>
    /\ device0' = device
    /\ EnterWrite(c, d)
    /\ UNCHANGED <<prog, pos, retried>>

----------------------------------------------------------------------------
(* The operations *)

\* the software brightness applied to the single-LED frame too
set_led_Scaled(number, color) ==
    /\ Ready
    /\ LET c == Call("set_led", number, color, 0)
           cb == color_bytes(color)
       IN  IF ~InRange(number, num_pixels) THEN Raise(c, "ValueError_position")
           ELSE IF cb.err # "" THEN Raise(c, cb.err)
           ELSE Begin(c, SingleLedColorFrame(number,
                    [k \in 1 .. 3 |-> ScaleChannel(cb.bytes[k], brightness)]))

set_led(number, color) ==
    /\ Ready
    /\ LET c == Call("set_led", number, color, 0)
           cb == color_bytes(color)
       IN  IF ~InRange(number, num_pixels) THEN Raise(c, "ValueError_position")
           ELSE IF cb.err # "" THEN Raise(c, cb.err)
           ELSE Begin(c, SingleLedColorFrame(number, cb.bytes))

\* the fill color stored in the pixel buffer as well
optimized_fill_Buffered(color) ==
    /\ Ready
    /\ LET c == Call("optimized_fill", 0, color, 0)
           cb == color_bytes(color)
           d == AllLedColorFrame(
                    [k \in 1 .. 3 |-> ScaleChannel(cb.bytes[k], brightness)])
       IN  IF cb.err # "" THEN Raise(c, cb.err)
           ELSE /\ call' = c
                /\ outcome' = "running"
                /\ frames' = <<d>>
                /\ device0' = device
                /\ EnterWrite(c, d)
                /\ buf' = [k \in 1 .. Len(buf) |-> cb.bytes[((k - 1) % 3) + 1]]
                /\ UNCHANGED <<num_pixels, brightness, device, retries, pos,
                               retried>>

optimized_fill(color) ==
    /\ Ready
    /\ LET c == Call("optimized_fill", 0, color, 0)
           cb == color_bytes(color)
       IN  IF cb.err # "" THEN Raise(c, cb.err)
           ELSE Begin(c, AllLedColorFrame(
                    [k \in 1 .. 3 |-> ScaleChannel(cb.bytes[k], brightness)]))

set_led_brightness(number, level) ==
    /\ Ready
    /\ LET c == Call("set_led_brightness", number, NoColor, level)
       IN  IF ~InRange(number, num_pixels) THEN Raise(c, "ValueError_position")
           ELSE IF InvalidLevel(level) THEN Raise(c, "ValueError_brightness")
           ELSE Begin(c, SingleLedBrightnessFrame(number, level))

\* line 174 reads the name `number`, which is neither a parameter nor a
\* global of the module: the lookup raises NameError, whatever the argument
set_brightness(level) ==
    /\ Ready
    /\ Raise(Call("set_brightness", 0, NoColor, level), "NameError")

off ==
    /\ Ready
    /\ Begin(Call("off", 0, NoColor, 0), AllLedOffFrame)

change_address(new_address) ==
    /\ Ready
    /\ LET c == Call("change_address", 0, NoColor, new_address)
       IN  IF InvalidAddress(new_address) THEN Raise(c, "False")
           ELSE Begin(c, ChangeAddressFrame(new_address))

\* show() of the pixel buffer: _transmit(buf), whose first iteration is
\* set_led(0, buf[0:3])
transmit ==
    /\ Ready
    /\ num_pixels > 0
    /\ call' = Call("transmit", 0, NoColor, 0)
    /\ outcome' = "running"
    /\ device0' = device
    /\ pos' = 0
    /\ frames' = << SingleLedColorFrame(0, SubSeq(buf, 1, 3)) >>
    /\ EnterWrite(call', SingleLedColorFrame(0, SubSeq(buf, 1, 3)))
    /\ UNCHANGED <<prog, retried>>

----------------------------------------------------------------------------
(* _write: one step per bus.write attempt *)

Attempt(ok) == [addr |-> bus, data |-> data, ok |-> ok]

\* no break: the loop goes on after a write that succeeded
bus_write_ok_NoBreak ==
    /\ pc = "attempt"
    /\ log' = Append(log, Attempt(TRUE))
    /\ i' = i + 1
    /\ pc' = IF i + 1 < RETRIES THEN "attempt" ELSE "exit"
    /\ UNCHANGED <<prog, call, pos, data, bus, held, outcome, frames,
                   retries0, device0,
                   retried>>

\* bus.write(data) returned: break
bus_write_ok ==
    /\ pc = "attempt"
    /\ log' = Append(log, Attempt(TRUE))
    /\ pc' = "exit"
    /\ UNCHANGED <<prog, call, pos, data, bus, i, held, outcome, frames,
                   retries0, device0,
                   retried>>

\* bus.write(data) raised OSError: sleep, count, next iteration if any
bus_write_OSError ==
    /\ pc = "attempt"
    /\ log' = Append(log, Attempt(FALSE))
    /\ retries' = RetriesAfterFailure(retries)
    /\ i' = i + 1
    /\ pc' = IF i + 1 < RETRIES THEN "attempt" ELSE "exit"
    /\ retried' = IF i + 1 < RETRIES THEN retried + 1 ELSE retried
    /\ UNCHANGED <<num_pixels, brightness, buf, device, call, pos, data, bus,
                   held, outcome, frames, retries0, device0>>

\* the bus lock is not released
write_exit_KeepsLock ==
    /\ pc = "exit"
    /\ pc' = "return"
    /\ UNCHANGED <<prog, call, pos, data, bus, i, held, outcome, frames, log,
                   retries0, device0, retried>>

\* the with block is left: the bus lock is released, _write returns None
write_exit ==
    /\ pc = "exit"
    /\ held' = FALSE
    /\ pc' = "return"
    /\ UNCHANGED <<prog, call, pos, data, bus, i, outcome, frames, log,
                   retries0, device0,
                   retried>>

Finish ==
    /\ pc' = "idle"
    /\ outcome' = "None"
    /\ data' = <<>>
    /\ bus' = 0
    /\ i' = 0
    /\ pos' = 0

\* set_led, optimized_fill, set_led_brightness, off: return after _write
op_return ==
    /\ pc = "return"
    /\ call.op \in {"set_led", "optimized_fill", "set_led_brightness", "off"}
    /\ Finish
    /\ UNCHANGED <<prog, call, held, frames, log, retries0, device0,
                   retried>>

\* the target is rebound only when the command was sent
change_address_return_OnlyIfSent ==
    /\ pc = "return"
    /\ call.op = "change_address"
    /\ device' = IF log[Len(log)].ok THEN call.arg ELSE device
    /\ Finish
    /\ UNCHANGED <<num_pixels, brightness, buf, retries, call, held, frames,
                   log, retries0, device0, retried>>

\* change_address, line 208: self.device = I2CDevice(self.i2c, new_address)
change_address_return ==
    /\ pc = "return"
    /\ call.op = "change_address"
    /\ device' = call.arg
    /\ Finish
    /\ UNCHANGED <<num_pixels, brightness, buf, retries, call, held, frames,
                   log, retries0, device0,
                   retried>>

\* the slice does not move with pos: buffer[0:3] every time
transmit_next_SamePixel ==
    /\ pc = "return"
    /\ call.op = "transmit"
    /\ pos + 1 < num_pixels
    /\ pos' = pos + 1
    /\ LET d == SingleLedColorFrame(pos + 1, SubSeq(buf, 1, 3))
       IN  /\ frames' = Append(frames, d)
           /\ EnterWrite(call, d)
    /\ UNCHANGED <<prog, call, outcome, device0, retried>>

\* _transmit: the next iteration, set_led(pos + 1, ...)
transmit_next ==
    /\ pc = "return"
    /\ call.op = "transmit"
    /\ pos + 1 < num_pixels
    /\ pos' = pos + 1
    /\ LET d == SingleLedColorFrame(pos + 1,
                    SubSeq(buf, 3 * (pos + 1) + 1, 3 * (pos + 2)))
       IN  /\ frames' = Append(frames, d)
           /\ EnterWrite(call, d)
    /\ UNCHANGED <<prog, call, outcome, device0, retried>>

\* _transmit: the loop is over
transmit_return ==
    /\ pc = "return"
    /\ call.op = "transmit"
    /\ pos + 1 >= num_pixels
    /\ Finish
    /\ UNCHANGED <<prog, call, held, frames, log, retries0, device0,
                   retried>>

----------------------------------------------------------------------------
(* Specifications *)

\* the object __init__(i2c, address, ...) leaves
Constructed(address) ==
    /\ device = address
    /\ retries = 0
    /\ pc = "idle"
    /\ call = NoCall
    /\ pos = 0
    /\ data = <<>>
    /\ bus = 0
    /\ i = 0
    /\ held = FALSE
    /\ outcome = "None"
    /\ frames = <<>>
    /\ log = <<>>
    /\ retries0 = 0
    /\ device0 = address
    /\ retried = 0

\* address=_DEFAULT_ADDRESS
Fresh == Constructed(DEFAULT_ADDRESS)

Init ==
    /\ num_pixels \in 1 .. MaxPixels
    /\ brightness \in Brightnesses
    /\ buf \in Buffers(num_pixels)
    /\ Fresh

Next ==
    \/ \E number \in Numbers, color \in Colors : set_led(number, color)
    \/ \E color \in Colors : optimized_fill(color)
    \/ \E number \in Numbers, level \in Levels : set_led_brightness(number, level)
    \/ \E level \in Levels : set_brightness(level)
    \/ off
    \/ \E new_address \in Addresses : change_address(new_address)
    \/ transmit
    \/ bus_write_ok
    \/ bus_write_OSError
    \/ write_exit
    \/ op_return
    \/ change_address_return
    \/ transmit_next
    \/ transmit_return

Spec == Init /\ [][Next]_vars

\* one optimized_fill on a strip just constructed, over every channel value
\* and every brightness n/d with d <= MaxDen
FillBrightnesses == { <<n, d>> : n \in 0 .. MaxDen, d \in 1 .. MaxDen }

FillColors ==
    { Rgb(<<r, 255 - r, 128>>) : r \in 0 .. 255 }
        \cup { Packed(8421376), Packed(5242960), Packed(16777215) }

FillInit ==
    /\ num_pixels = MaxPixels
    /\ brightness \in { br \in FillBrightnesses : br[1] <= br[2] }
    /\ buf = [k \in 1 .. 3 * MaxPixels |-> 0]
    /\ Fresh

\* the first call on a strip just constructed
first_fill(color) == call = NoCall /\ optimized_fill(color)

FillNext ==
    \/ \E color \in FillColors : first_fill(color)
    \/ bus_write_ok
    \/ bus_write_OSError
    \/ write_exit
    \/ op_return

FillSpec == FillInit /\ [][FillNext]_vars

\* construction with an address given by the caller: 0x23, 0x05, 0x78
CtorAddresses == {35, 5, 120}

CtorInit ==
    /\ num_pixels \in 1 .. MaxPixels
    /\ brightness \in Brightnesses
    /\ buf \in Buffers(num_pixels)
    /\ \E address \in CtorAddresses : Constructed(address)

CtorSpec == CtorInit /\ [][Next]_vars

\* a strip whose buffer holds 201, 202, 203, ...: one direct command
\* (optimized_fill or set_led) on the new strip, then show() after a fill
ShowBuffer(n) == [k \in 1 .. 3 * n |-> 200 + k]

ShowInit ==
    /\ num_pixels \in 1 .. MaxPixels
    /\ brightness \in Brightnesses
    /\ buf = ShowBuffer(num_pixels)
    /\ Fresh

first_set_led(number, color) == call = NoCall /\ set_led(number, color)

show_after_fill ==
    /\ call.op = "optimized_fill"
    /\ outcome = "None"
    /\ transmit

ShowNext ==
    \/ \E color \in Colors : first_fill(color)
    \/ \E number \in Numbers, color \in Colors : first_set_led(number, color)
    \/ show_after_fill
    \/ bus_write_ok
    \/ bus_write_OSError
    \/ write_exit
    \/ op_return
    \/ transmit_next
    \/ transmit_return

ShowSpec == ShowInit /\ [][ShowNext]_vars

----------------------------------------------------------------------------
(* Vocabulary of the properties *)

AllFailed(l) == \A k \in 1 .. Len(l) : ~l[k].ok

\* k failed attempts, then one that succeeded
FailedThenOk(l, k) ==
    /\ Len(l) = k + 1
    /\ l[k + 1].ok
    /\ \A j \in 1 .. k : ~l[j].ok

WriteOver == pc \in {"exit", "return", "idle"}

\* an integer 0x000000..0xFFFFFF, or a 3-element sequence of byte values
ValidColorArg(c) ==
    \/ c.tag = "int" /\ c.v \in 0 .. 16777215
    \/ c.tag = "seq" /\ Len(c.s) = 3 /\ \A k \in 1 .. 3 : c.s[k] \in 0 .. 255

\* (c >> 16 & 0xFF, c >> 8 & 0xFF, c & 0xFF), or the triple itself
Channels(c) ==
    IF c.tag = "int"
    THEN << (c.v \div 65536) % 256, (c.v \div 256) % 256, c.v % 256 >>
    ELSE c.s

FrameOps ==
    {"set_led", "optimized_fill", "set_led_brightness", "set_brightness",
     "off", "change_address"}

----------------------------------------------------------------------------
(* C1 *)

\* C1: when every bus write attempt of an operation's write failed, the
\* operation ends in an IoError (OSError) outcome: it never completes
\* normally.  Stated as the claim states it; _write swallows the last
\* OSError, so the code violates it.
C1_AllFailedRaises ==
    (pc = "idle" /\ call.op \in FrameOps /\ frames # <<>>
        /\ Len(log) = RETRIES /\ AllFailed(log))
    => outcome = "OSError"

(* C2 *)

\* C2: when all 4 attempts of one write failed, retries has grown by
\* exactly 3 over that write.  Stated as the claim states it; the code
\* counts the last failure too.
C2_TotalFailureAddsThree ==
    (WriteOver /\ Len(log) = 4 /\ AllFailed(log)) => retries = retries0 + 3

(* C3 *)

\* C3: for every k in 0..3, a write whose first k attempts failed and whose
\* attempt k+1 succeeded has added exactly k to retries, and the operation
\* that made it returns normally.
C3_FailKThenSucceed ==
    \A k \in 0 .. 3 :
        (WriteOver /\ FailedThenOk(log, k))
        => /\ retries = retries0 + k
           /\ pc = "idle" => outcome = "None"

C3_Witness ==
    /\ pc = "idle"
    /\ FailedThenOk(log, 3)
    /\ retries = retries0 + 3
    /\ outcome = "None"

(* C4 *)

\* C4: a write makes at least 1 and at most 4 bus write attempts, makes
\* none after the first that succeeded, hands the same frame (the one
\* _write was given) to every attempt, and terminates: while it runs a
\* next step exists, and an attempt is only pending while fewer than 4
\* were made and none succeeded.
C4_BoundedAttempts ==
    /\ Len(log) <= 4
    /\ \A k \in 1 .. Len(log) - 1 : ~log[k].ok
    /\ \A k \in 1 .. Len(log) : log[k].data = frames[Len(frames)]
    /\ pc = "attempt" => Len(log) < 4 /\ AllFailed(log)
    /\ (pc \in {"exit", "return"} \/ (pc = "idle" /\ frames # <<>>))
        => Len(log) >= 1
    /\ pc = "exit" => (log[Len(log)].ok \/ Len(log) = 4)
    /\ pc # "idle" => ENABLED Next

C4_Witness ==
    /\ pc = "idle"
    /\ FailedThenOk(log, 1)

(* C5 *)

\* C5: change_address with 0x08 <= new_address <= 0x77 hands the frame
\* [0xC7, new_address] to _write, every attempt of that write goes to the
\* address that was current when the call started, the target is rebound
\* only after the write is over, and from then on every attempt of every
\* operation goes to the address current when that operation started,
\* which is new_address.
C5_ChangeAddressOrder ==
    /\ \A k \in 1 .. Len(log) : log[k].addr = device0
    /\ call.op # "change_address" => device = device0
    /\ (call.op = "change_address" /\ call.arg \in 8 .. 119)
        => /\ frames = << <<199, call.arg>> >>
           /\ \A k \in 1 .. Len(log) : log[k].data = <<199, call.arg>>
           /\ pc # "idle" => device = device0
           /\ pc = "idle" => device = call.arg /\ Len(log) >= 1

C5_Witness ==
    /\ pc = "idle"
    /\ call.op = "off"
    /\ Len(log) = 2
    /\ \A k \in 1 .. 2 : log[k].addr = 119
    /\ device = 119

(* C6 *)

\* C6: change_address with new_address < 0x08 or > 0x77 reports the
\* invalid address (the code's signal is the return value False), makes no
\* bus write, and leaves device, retries and the buffer as they were.
C6_InvalidAddressNoOp ==
    [][ (pc = "idle" /\ call'.op = "change_address"
            /\ (call'.arg < 8 \/ call'.arg > 119))
        => /\ outcome' = "False"
           /\ pc' = "idle"
           /\ frames' = <<>> /\ log' = <<>>
           /\ ~held'
           /\ device' = device /\ retries' = retries /\ buf' = buf ]_vars

C6_Witness ==
    /\ pc = "idle"
    /\ call.op = "change_address"
    /\ call.arg = 120
    /\ outcome = "False"
    /\ frames = <<>>
    /\ retries > 0
    /\ device = 8

(* C7 *)

\* C7: set_brightness(level) with 0 <= level <= 31 hands the frame
\* [0x77, level] to _write; with any other level it fails with the
\* brightness error and writes nothing.  Stated as the claim states it;
\* the stray index check raises NameError for every level.
C7_SetBrightnessFrame ==
    call.op = "set_brightness"
    => IF call.arg \in 0 .. 31
       THEN frames = << <<119, call.arg>> >>
       ELSE outcome = "ValueError_brightness" /\ frames = <<>>

(* C8 *)

\* C8: optimized_fill with a valid color calls _write exactly once, with a
\* 4-byte frame whose first byte is 0x72, whatever num_pixels is; no frame
\* and no attempt of it carries the single-LED opcode 0x71.
C8_FillOneWrite ==
    (call.op = "optimized_fill" /\ ValidColorArg(call.color))
    => /\ Len(frames) = 1
       /\ Len(frames[1]) = 4
       /\ frames[1][1] = 114
       /\ \A k \in 1 .. Len(log) : log[k].data = frames[1]
       /\ pc = "idle" => outcome = "None" /\ Len(log) >= 1

C8_Witness ==
    /\ pc = "idle"
    /\ call.op = "optimized_fill"
    /\ call.color = Packed(5242960)
    /\ num_pixels = MaxPixels
    /\ brightness = <<1, 1>>
    /\ frames = << <<114, 80, 0, 80>> >>
    /\ Len(log) = 1

(* C9 *)

C11_LedBrightnessLevel ==
    (call.op = "set_led_brightness" /\ call.number \in 0 .. num_pixels - 1)
    => IF call.arg \in 0 .. 31
       THEN /\ frames = << <<118, call.number, call.arg>> >>
            /\ \A k \in 1 .. Len(log) : log[k].data = <<118, call.number, call.arg>>
            /\ pc = "idle" => outcome = "None" /\ Len(log) >= 1
       ELSE /\ pc = "idle"
            /\ outcome = "ValueError_brightness"
            /\ frames = <<>> /\ log = <<>>
            /\ ~held

C11_Witness ==
    /\ pc = "idle"
    /\ call.op = "set_led_brightness"
    /\ call.number = num_pixels - 1
    /\ call.arg = 31
    /\ frames = << <<118, num_pixels - 1, 31>> >>
    /\ log[Len(log)].ok
    /\ outcome = "None"

(* C12 *)

\* the exceptions a color argument can raise: color_bytes' own ValueError,
\* the ValueError of bytes(), the OverflowError of int.to_bytes
InvalidColorErrors == {"ValueError_color", "ValueError_bytes", "OverflowError"}

\* C12: a color that is neither an integer in 0x000000..0xFFFFFF nor a
\* 3-element sequence of byte values makes set_led (with a valid index) and
\* optimized_fill raise a color error; no frame is built from a cut or
\* wrapped value and no bus write is made.
C12_InvalidColor ==
    (call.op \in {"set_led", "optimized_fill"} /\ ~ValidColorArg(call.color))
    => /\ pc = "idle"
       /\ frames = <<>> /\ log = <<>>
       /\ ~held
       /\ (call.op = "optimized_fill" \/ call.number \in 0 .. num_pixels - 1)
            => outcome \in InvalidColorErrors

C12_Witness ==
    /\ pc = "idle"
    /\ call.op = "set_led"
    /\ call.number = 0
    /\ call.color = Packed(16777216)
    /\ outcome = "OverflowError"
    /\ frames = <<>>
    /\ retries > 0

(* C13 *)

\* C13: set_led(index, color) with a valid index and a valid color hands
\* exactly one frame to _write, [0x71, index, r, g, b] with the channels of
\* the color as given, whatever the software brightness is.
C13_SetLedUnscaled ==
    (call.op = "set_led" /\ call.number \in 0 .. num_pixels - 1
        /\ ValidColorArg(call.color))
    => /\ frames = << <<113, call.number>> \o Channels(call.color) >>
       /\ \A k \in 1 .. Len(log) : log[k].data = frames[1]
       /\ pc = "idle" => outcome = "None" /\ Len(log) >= 1

C13_Witness ==
    /\ pc = "idle"
    /\ call.op = "set_led"
    /\ brightness = <<1, 5>>
    /\ call.color = Packed(8421376)
    /\ frames = << <<113, 0, 128, 128, 0>> >>
    /\ log[Len(log)].ok

(* C14 *)

\* C14: every step of off() leaves the pixel buffer, the brightness and
\* the device address as they were, and the one frame it hands to _write
\* is [0x78, 0].
C14_OffFrame ==
    [][ call'.op = "off"
        => /\ frames' = << <<120, 0>> >>
           /\ \A k \in 1 .. Len(log') : log'[k].data = <<120, 0>>
           /\ buf' = buf
           /\ brightness' = brightness
           /\ device' = device ]_vars

C14_Witness ==
    /\ pc = "idle"
    /\ call.op = "off"
    /\ outcome = "None"
    /\ frames = << <<120, 0>> >>
    /\ log[Len(log)].ok
    /\ buf = <<0, 0, 0, 9, 8, 7>>
    /\ device = 8

(* C15 *)

\* C15: retries starts at 0 and at every point equals the number of bus
\* write attempts, since construction, that failed and were retried.
\* Stated as the claim states it; the code also counts the last failure of
\* a write whose 4 attempts all failed, which no retry follows.
C15_RetriesCountsRetried ==
    /\ retries >= 0
    /\ retries = retried

(* C16 *)

\* C16: the bus lock is held exactly while a _write call is between its
\* entry and the end of its with block; once the write is over, after a
\* success as after 4 failures, and in every state between operations, it
\* is not held.
C16_LockScoped ==
    /\ held <=> pc \in {"attempt", "exit"}
    /\ pc \in {"idle", "return"} => ~held

C16_Witness ==
    /\ pc = "return"
    /\ ~held
    /\ Len(log) = 4
    /\ AllFailed(log)

(* C17 *)

\* C17: in every reachable state, whatever address the strip was
\* constructed with, device is a 7-bit address in 0x08..0x77.  Stated as
\* the claim states it; __init__ takes any address.
C17_LegalAddress == device \in 8 .. 119

(* C18 *)

\* C18: _transmit of a buffer of num_pixels pixels hands exactly num_pixels
\* frames to _write, the k-th being [0x71, k-1] followed by bytes
\* 3(k-1)..3(k-1)+2 of the buffer: increasing index, none skipped, none
\* sent twice.
C18_TransmitOrder ==
    call.op = "transmit"
    => /\ \A k \in 1 .. Len(frames) :
            frames[k] = <<113, k - 1, buf[3 * k - 2], buf[3 * k - 1], buf[3 * k]>>
       /\ pc # "idle" => Len(frames) = pos + 1
       /\ Len(frames) <= num_pixels
       /\ pc = "idle" => Len(frames) = num_pixels /\ outcome = "None"

C18_Witness ==
    /\ pc = "idle"
    /\ call.op = "transmit"
    /\ num_pixels = MaxPixels
    /\ Len(frames) = MaxPixels
    /\ frames[1] = <<113, 0, 0, 0, 0>>
    /\ frames[MaxPixels] = <<113, MaxPixels - 1, 9, 8, 7>>

(* C19 *)

\* C19: once change_address with a valid new_address has returned, the
\* target is new_address and the call has returned normally, also when all
\* 4 attempts to send the frame failed.
C19_ReboundAnyway ==
    (pc = "idle" /\ call.op = "change_address" /\ ~(call.arg < 8 \/ call.arg > 119))
    => /\ device = call.arg
       /\ outcome = "None"

C19_Witness ==
    /\ pc = "idle"
    /\ call.op = "change_address"
    /\ Len(log) = 4
    /\ AllFailed(log)
    /\ device0 = 35
    /\ device = 119

(* C20 *)

\* C20: optimized_fill and set_led leave the pixel buffer as it was (here
\* 201, 202, 203, ...), so the frames of a show() that follows an
\* optimized_fill carry those bytes, not the fill color.
C20_BufferUntouched ==
    /\ buf = ShowBuffer(num_pixels)
    /\ call.op = "transmit"
        => /\ \A k \in 1 .. Len(frames) :
                frames[k] = <<113, k - 1, 200 + 3 * k - 2, 200 + 3 * k - 1,
                              200 + 3 * k>>
           /\ pc = "idle" => Len(frames) = num_pixels

C20_Witness ==
    /\ pc = "idle"
    /\ call.op = "transmit"
    /\ num_pixels = MaxPixels
    /\ Len(frames) = MaxPixels
    /\ frames[1] = <<113, 0, 201, 202, 203>>

====
